---- MODULE Spec2Model ----
(***************************************************************************)
(* Model of sunburst.py: the pipeline of main() (get_data,                 *)
(* propogate_values, propogate_geo, propogate_color, add_arcs, save), the  *)
(* arc path construction of addArc, and the colour conversion used by      *)
(* propogate_color.                                                        *)
(*                                                                         *)
(* Conventions.                                                            *)
(*  - A node of the nested dict `data` is identified by its path from the  *)
(*    root, a sequence of names; the root is <<>>.  `nodes` is the set of  *)
(*    paths that exist, and each dict key ('value', 'ts'/'te', 'r0'/'r1',  *)
(*    'rgb') is a function whose DOMAIN is the set of nodes having the key.*)
(*  - Names are integers; their order stands for the string order used by  *)
(*    sorted().  0 is the empty cell (col.value is None).                  *)
(*  - Angles are exact rationals <<n, d>> (d > 0, lowest terms) in units   *)
(*    of pi, so 2*math.pi is <<2, 1>>.  Floating-point rounding is not     *)
(*    modelled.                                                            *)
(***************************************************************************)
EXTENDS Integers, Sequences, FiniteSets, TLC

\* ---------------------------------------------------------------- bounds
MaxRows  == 3
MaxValue == 2
MaxAngle == 5
MaxLvl   == 11
PiUnits  == 4

\* ------------------------------------------------------ program constants
\* (the lightness constants are in percent, the hues in 1/255 of a turn)
RING_WIDTH == 60
RING_START == 100
COLOR_LIGHTNESS == 30
COLOR_INCREMENT == 10
HUES == <<0, 70, 15, 145, 235, 120, 35, 210, 100>>

\* The spreadsheets read have two label columns and a value column, and the
\* labels are the two names 1 < 2 (say "A" < "B"); 0 is an empty cell.
Names  == {1, 2}
Empty  == 0
Cells  == (Names \cup {Empty}) \X (Names \cup {Empty})
Values == (0 - 1)..MaxValue
Rows   == [cells : Cells, value : Values]

VARIABLES
    pc, err,                 \* position in main(), exception raised
    nrows, row, path, prevpath,   \* get_data loop
    nodes, value, supplied,  \* the tree and its 'value' keys
    span, radii, rgb,        \* 'ts'/'te', 'r0'/'r1', 'rgb' keys
    stack, visited, draws,   \* add_arcs recursion and the draw calls made
    saved,                   \* dwg.save() was called
    apc, t0, t1, t2, iradius, oradius, in0, in1, apath,   \* addArc
    cpc, chue, clvl, crgb    \* propogate_color along one branch

mainVars  == <<pc, err, nrows, row, path, prevpath, nodes, value, supplied,
               span, radii, rgb, stack, visited, draws, saved>>
arcVars   == <<apc, t0, t1, t2, iradius, oradius, in0, in1, apath>>
colorVars == <<cpc, chue, clvl, crgb>>
vars      == <<mainVars, arcVars, colorVars>>

\* --------------------------------------------------------------- helpers
NoRow == [cells |-> <<Empty, Empty>>, value |-> 0]

Abs(x) == IF x < 0 THEN 0 - x ELSE x

RECURSIVE GCD(_, _)
GCD(a, b) == IF b = 0 THEN a ELSE GCD(b, a % b)

\* exact rationals
Norm(n, d) ==
    LET g == GCD(Abs(n), Abs(d))
        s == IF d < 0 THEN 0 - 1 ELSE 1
    IN  <<(s * n) \div g, (s * d) \div g>>
RAdd(x, y)    == Norm(x[1] * y[2] + y[1] * x[2], x[2] * y[2])
RSub(x, y)    == Norm(x[1] * y[2] - y[1] * x[2], x[2] * y[2])
RMulInt(x, k) == Norm(x[1] * k, x[2])
RDivInt(x, k) == Norm(x[1], x[2] * k)
RZero  == <<0, 1>>
TwoPi  == <<2, 1>>

Parent(p)   == SubSeq(p, 1, Len(p) - 1)
Last(p)     == p[Len(p)]
Children(ns, p) == {q \in ns : Len(q) = Len(p) + 1 /\ Parent(q) = p}

\* sorted(data['children']): the children in ascending name order
RECURSIVE SortedSeq(_)
SortedSeq(S) ==
    IF S = {} THEN <<>>
    ELSE LET m == CHOOSE q \in S : \A r \in S : Last(q) <= Last(r)
         IN  <<m>> \o SortedSeq(S \ {m})
Sorted(ns, p) == SortedSeq(Children(ns, p))

\* ------------------------------------------------------------- get_data
\* lines 122-125: one cell of the row
\* `del path[k:]` with a 0-based k: keeps the first min(k, len) segments
DelFrom(pth, k) == SubSeq(pth, 1, IF k < Len(pth) THEN k ELSE Len(pth))

\* idx is the 1-based column, so Python's idx is idx - 1
CellStep(pth, idx, cell) ==
    IF cell # Empty THEN Append(DelFrom(pth, idx - 1), cell) ELSE pth

RECURSIVE RowPath(_, _, _)
RowPath(pth, cells, idx) ==
    IF idx > Len(cells) THEN pth
    ELSE RowPath(CellStep(pth, idx, cells[idx]), cells, idx + 1)

Prefixes(p) == {SubSeq(p, 1, k) : k \in 0..Len(p)}

Init ==
    /\ pc = "read" /\ err = "none"
    /\ nrows = 0 /\ row = NoRow /\ path = <<>> /\ prevpath = <<>>
    /\ nodes = {<<>>}
    /\ value = <<>> /\ supplied = <<>>
    /\ span = (<<>> :> <<RZero, TwoPi>>)
    /\ radii = <<>> /\ rgb = <<>>
    /\ stack = <<>> /\ visited = {} /\ draws = <<>>
    /\ saved = FALSE
    /\ apc = "idle" /\ t0 = 0 /\ t1 = 0 /\ t2 = <<>> /\ iradius = 0
    /\ oradius = 0 /\ in0 = 0 /\ in1 = 0 /\ apath = <<>>
    /\ cpc = "idle" /\ chue = 0 /\ clvl = 0 /\ crgb = <<0, 0, 0>>

\* lines 121-132: one iteration of `for row in ws.rows`
ReadRow(r) ==
    /\ pc = "read" /\ nrows < MaxRows
    /\ LET np == RowPath(path, r.cells, 1) IN
        /\ path' = np
        /\ prevpath' = path
        /\ nodes' = nodes \cup Prefixes(np)
        /\ value' = [q \in (DOMAIN value) \cup {np} |->
                        IF q = np THEN r.value ELSE value[q]]
        /\ supplied' = [q \in (DOMAIN supplied) \cup {np} |->
                        IF q = np THEN r.value ELSE supplied[q]]
    /\ row' = r
    /\ nrows' = nrows + 1
    /\ UNCHANGED <<pc, err, span, radii, rgb, stack, visited, draws, saved>>
    /\ UNCHANGED <<arcVars, colorVars>>

\* line 134: the loop ends and the tree is returned to main(); the locals
\* of get_data (row, path) go out of scope
ReturnData ==
    /\ pc = "read"
    /\ pc' = "values"
    /\ nrows' = 0 /\ row' = NoRow /\ path' = <<>> /\ prevpath' = <<>>
    /\ UNCHANGED <<err, nodes, value, supplied,
                   span, radii, rgb, stack, visited, draws, saved>>
    /\ UNCHANGED <<arcVars, colorVars>>

\* ------------------------------------------------------ propogate_values
RECURSIVE SumValues(_, _)
SumValues(S, val) ==
    IF S = {} THEN 0
    ELSE LET q == CHOOSE x \in S : TRUE
         IN  val[q] + SumValues(S \ {q}, val)

\* a plausible slip: the sum starts from the node's own supplied value
RECURSIVE NodeValueKeepOwn(_, _, _)
NodeValueKeepOwn(ns, val, p) ==
    IF Children(ns, p) = {} THEN val[p]
    ELSE LET kids == Children(ns, p)
             rec  == [q \in kids |-> NodeValueKeepOwn(ns, val, q)]
         IN  (IF p \in DOMAIN val THEN val[p] ELSE 0) + SumValues(kids, rec)

\* lines 142-149: the 'value' of node p once propogate_values(p) returned
RECURSIVE NodeValue(_, _, _)
NodeValue(ns, val, p) ==
    IF Children(ns, p) = {} THEN val[p]
    ELSE LET kids == Children(ns, p)
             rec  == [q \in kids |-> NodeValue(ns, val, q)]
         IN  0 + SumValues(kids, rec)

Interior(ns) == {p \in ns : Children(ns, p) # {}}

\* line 244
PropogateValues ==
    /\ pc = "values"
    /\ value' = [p \in (DOMAIN value) \cup Interior(nodes) |->
                    NodeValue(nodes, value, p)]
    /\ pc' = "geo"
    /\ UNCHANGED <<err, nrows, row, path, prevpath, nodes, supplied,
                   span, radii, rgb, stack, visited, draws, saved>>
    /\ UNCHANGED <<arcVars, colorVars>>

\* --------------------------------------------------------- propogate_geo
RECURSIVE Concat(_)
Concat(ss) == IF ss = <<>> THEN <<>> ELSE ss[1] \o Concat(Tail(ss))

\* the order in which propogate_geo is called on the nodes
RECURSIVE Preorder(_, _)
Preorder(ns, p) ==
    LET kids == Sorted(ns, p)
    IN  <<p>> \o Concat([i \in 1..Len(kids) |-> Preorder(ns, kids[i])])

\* the argument of the recursive call, line 166, keeping the radius
NextRadiusSame(radius) == radius

\* the argument of the recursive call, line 166
NextRadius(radius) == radius + RING_WIDTH

\* the `radius` argument of the call propogate_geo(p, radius)
RECURSIVE CallRadius(_)
CallRadius(p) ==
    IF p = <<>> THEN RING_START ELSE NextRadius(CallRadius(Parent(p)))

\* lines 164-165 for child c
ChildRadii(c) ==
    LET radius == CallRadius(Parent(c)) IN <<radius, radius + RING_WIDTH>>

\* a plausible slip: the dividend is not scaled by the parent's span
AngleAtUnscaled(ts, te, cv, v) == RAdd(ts, RDivInt(RMulInt(<<1, 1>>, cv), v))

\* lines 161 and 163: ts + (cv * (te - ts) / v)
AngleAt(ts, te, cv, v) == RAdd(ts, RDivInt(RMulInt(RSub(te, ts), cv), v))

\* cv when the loop of line 160 reaches child c
CvBefore(ns, val, c) ==
    SumValues({q \in Children(ns, Parent(c)) : Last(q) < Last(c)}, val)

\* <<ts, te>> assigned to node p (the root's are set at line 120)
RECURSIVE NodeSpan(_, _, _, _)
NodeSpan(ns, val, rootspan, p) ==
    IF p = <<>> THEN rootspan
    ELSE LET ps == NodeSpan(ns, val, rootspan, Parent(p))
             v  == val[Parent(p)]
             cv == CvBefore(ns, val, p)
         IN  << AngleAt(ps[1], ps[2], cv, v),
                AngleAt(ps[1], ps[2], cv + val[p], v) >>

\* what the call propogate_geo(p, ...) raises, if anything
GeoRaises(ns, val, p) ==
    IF p \notin DOMAIN val THEN "KeyError"                  \* line 157
    ELSE IF Children(ns, p) # {} /\ val[p] = 0
         THEN "ZeroDivisionError"                           \* line 161
         ELSE "none"

\* line 245
PropogateGeo ==
    /\ pc = "geo"
    /\ LET pre  == Preorder(nodes, <<>>)
           bad  == {i \in 1..Len(pre) : GeoRaises(nodes, value, pre[i]) # "none"}
           stop == IF bad = {} THEN Len(pre)
                   ELSE CHOOSE i \in bad : \A j \in bad : i <= j
           done == {pre[i] : i \in 2..stop}
       IN  /\ span' = [p \in {<<>>} \cup done |->
                          NodeSpan(nodes, value, span[<<>>], p)]
           /\ radii' = [p \in done |-> ChildRadii(p)]
           /\ IF bad = {}
              THEN pc' = "color" /\ err' = err
              ELSE pc' = "error" /\ err' = GeoRaises(nodes, value, pre[stop])
    /\ UNCHANGED <<nrows, row, path, prevpath, nodes, value, supplied,
                   rgb, stack, visited, draws, saved>>
    /\ UNCHANGED <<arcVars, colorVars>>

\* ------------------------------------------------------- propogate_color
\* colorsys._v with hue in 1/765 turns, m1 and m2 in percent; the result is
\* the numerator of the component over 76500
HlsV(m1, m2, hue) ==
    LET h == hue % 765 IN
    IF 2 * h < 255 THEN m1 * 765 + (m2 - m1) * h * 6
    ELSE IF 2 * h < 765 THEN m2 * 765
    ELSE IF h < 510 THEN m1 * 765 + (m2 - m1) * (510 - h) * 6
    ELSE m1 * 765

\* line 175: int(255 * x)
Channel(num) == (255 * num) \div 76500

\* line 174-175: colorsys.hls_to_rgb(hue, l, 1) with hue = k/255 and
\* l in percent, then the three channels
HlsToRgb(k, l) ==
    LET m2 == IF l <= 50 THEN l * 2 ELSE 100
        m1 == 2 * l - m2
    IN  << Channel(HlsV(m1, m2, 3 * k + 255)),
           Channel(HlsV(m1, m2, 3 * k)),
           Channel(HlsV(m1, m2, 3 * k + 765 - 255)) >>

\* line 174: the lightness at level lvl, in percent
Lightness(lvl) == COLOR_LIGHTNESS + lvl * COLOR_INCREMENT

\* lines 247-250
PropogateColor ==
    /\ pc = "color"
    /\ LET tops == Sorted(nodes, <<>>)
           n    == IF Len(tops) <= Len(HUES) THEN Len(tops) ELSE Len(HUES)
           idx(p) == CHOOSE i \in 1..Len(tops) : tops[i] = SubSeq(p, 1, 1)
           done == {p \in nodes : p # <<>> /\ idx(p) <= n}
       IN  /\ rgb' = [p \in done |->
                         HlsToRgb(HUES[idx(p)], Lightness(Len(p) - 1))]
           /\ IF Len(tops) <= Len(HUES)
              THEN pc' = "arcs" /\ err' = err /\ stack' = << <<>> >>
              ELSE pc' = "error" /\ err' = "IndexError" /\ stack' = stack
    /\ UNCHANGED <<nrows, row, path, prevpath, nodes, value, supplied,
                   span, radii, visited, draws, saved>>
    /\ UNCHANGED <<arcVars, colorVars>>

\* -------------------------------------------------------------- add_arcs
\* lines 185-201: the loop of the innermost call takes the next key of its
\* dict; the iteration order of a dict is not fixed by the language
AddArcsVisit ==
    /\ pc = "arcs" /\ stack # <<>>
    /\ \E c \in Children(nodes, stack[Len(stack)]) \ visited :
        /\ draws' = draws \o << [kind |-> "wedge", node |-> c],
                                [kind |-> "label", node |-> c] >>
        /\ visited' = visited \cup {c}
        /\ stack' = Append(stack, c)
    /\ UNCHANGED <<pc, err, nrows, row, path, prevpath, nodes, value,
                   supplied, span, radii, rgb, saved>>
    /\ UNCHANGED <<arcVars, colorVars>>

\* the loop of the innermost call is exhausted and the call returns
AddArcsReturn ==
    /\ pc = "arcs" /\ stack # <<>>
    /\ Children(nodes, stack[Len(stack)]) \subseteq visited
    /\ stack' = SubSeq(stack, 1, Len(stack) - 1)
    /\ pc' = IF Len(stack) = 1 THEN "save" ELSE pc
    /\ UNCHANGED <<err, nrows, row, path, prevpath, nodes, value,
                   supplied, span, radii, rgb, visited, draws, saved>>
    /\ UNCHANGED <<arcVars, colorVars>>

\* line 262
Save ==
    /\ pc = "save"
    /\ saved' = TRUE
    /\ pc' = "done"
    /\ UNCHANGED <<err, nrows, row, path, prevpath, nodes, value,
                   supplied, span, radii, rgb, stack, visited, draws>>
    /\ UNCHANGED <<arcVars, colorVars>>

Next ==
    \/ \E r \in Rows : ReadRow(r)
    \/ ReturnData
    \/ PropogateValues
    \/ PropogateGeo
    \/ PropogateColor
    \/ AddArcsVisit
    \/ AddArcsReturn
    \/ Save

Spec == Init /\ [][Next]_vars

\* ---------------------------------------------------------------- addArc
\* Angles of addArc are integers in units of pi/PiUnits; the arguments are
\* even, so that the midpoint of line 65 is exact.
Pi == PiUnits
AngleArgs  == {2 * k : k \in (0 - MaxAngle)..MaxAngle}
RadiusArgs == {<<0, RING_WIDTH>>, <<RING_START, RING_START + RING_WIDTH>>}

\* a plausible slip: only spans above a full turn are split
NeedsSplitFullTurn(a, b) == b - a > 2 * Pi

\* line 63
NeedsSplit(a, b) == b - a > Pi

\* a path command ending at the point of radius r and angle t
Cmd(op, r, t, sweep) == [op |-> op, r |-> r, t |-> t, sweep |-> sweep]

InitArc ==
    /\ pc = "idle" /\ err = "none"
    /\ nrows = 0 /\ row = NoRow /\ path = <<>> /\ prevpath = <<>>
    /\ nodes = {<<>>}
    /\ value = <<>> /\ supplied = <<>>
    /\ span = (<<>> :> <<RZero, TwoPi>>)
    /\ radii = <<>> /\ rgb = <<>>
    /\ stack = <<>> /\ visited = {} /\ draws = <<>>
    /\ saved = FALSE
    /\ cpc = "idle" /\ chue = 0 /\ clvl = 0 /\ crgb = <<0, 0, 0>>
    /\ apc = "swap"
    /\ in0 \in AngleArgs /\ in1 \in AngleArgs
    /\ t0 = in0 /\ t1 = in1 /\ t2 = <<>>
    /\ \E rr \in RadiusArgs : iradius = rr[1] /\ oradius = rr[2]
    /\ apath = <<>>

\* lines 46-50
ArcSwap ==
    /\ apc = "swap"
    /\ IF t1 < t0 THEN t0' = t1 /\ t1' = t0 ELSE UNCHANGED <<t0, t1>>
    /\ apc' = "norm"
    /\ UNCHANGED <<t2, iradius, oradius, in0, in1, apath>>
    /\ UNCHANGED <<mainVars, colorVars>>

\* lines 53-54: one test of the loop condition
ArcNormalize ==
    /\ apc = "norm"
    /\ IF t1 - t0 > 2 * Pi
       THEN t1' = t1 - 2 * Pi /\ apc' = apc
       ELSE t1' = t1 /\ apc' = "split"
    /\ UNCHANGED <<t0, t2, iradius, oradius, in0, in1, apath>>
    /\ UNCHANGED <<mainVars, colorVars>>

\* lines 62-65
ArcSplit ==
    /\ apc = "split"
    /\ IF NeedsSplit(t0, t1)
       THEN t2' = <<t1>> /\ t1' = (t0 + t1) \div 2
       ELSE UNCHANGED <<t1, t2>>
    /\ apc' = "emit"
    /\ UNCHANGED <<t0, iradius, oradius, in0, in1, apath>>
    /\ UNCHANGED <<mainVars, colorVars>>

\* lines 87-96
ArcEmit ==
    /\ apc = "emit"
    /\ apath' =
         << Cmd("M", iradius, t0, 0), Cmd("A", iradius, t1, 0) >>
         \o (IF t2 # <<>>
             THEN << Cmd("A", iradius, t2[1], 0), Cmd("L", oradius, t2[1], 0),
                     Cmd("A", oradius, t1, 1) >>
             ELSE << Cmd("L", oradius, t1, 0) >>)
         \o << Cmd("A", oradius, t0, 1), Cmd("Z", iradius, t0, 0) >>
    /\ apc' = "done"
    /\ UNCHANGED <<t0, t1, t2, iradius, oradius, in0, in1>>
    /\ UNCHANGED <<mainVars, colorVars>>

NextArc == ArcSwap \/ ArcNormalize \/ ArcSplit \/ ArcEmit

SpecArc == InitArc /\ [][NextArc]_vars

\* ------------------------------------- propogate_color along one branch
InitColor ==
    /\ pc = "idle" /\ err = "none"
    /\ nrows = 0 /\ row = NoRow /\ path = <<>> /\ prevpath = <<>>
    /\ nodes = {<<>>}
    /\ value = <<>> /\ supplied = <<>>
    /\ span = (<<>> :> <<RZero, TwoPi>>)
    /\ radii = <<>> /\ rgb = <<>>
    /\ stack = <<>> /\ visited = {} /\ draws = <<>>
    /\ saved = FALSE
    /\ apc = "idle" /\ t0 = 0 /\ t1 = 0 /\ t2 = <<>> /\ iradius = 0
    /\ oradius = 0 /\ in0 = 0 /\ in1 = 0 /\ apath = <<>>
    /\ cpc = "call" /\ chue \in 1..Len(HUES) /\ clvl = 0
    /\ crgb = <<0, 0, 0>>

\* lines 174-175 of the call propogate_color(node, HUES[chue], clvl)
ColorNode ==
    /\ cpc = "call"
    /\ crgb' = HlsToRgb(HUES[chue], Lightness(clvl))
    /\ cpc' = "recurse"
    /\ UNCHANGED <<chue, clvl>>
    /\ UNCHANGED <<mainVars, arcVars>>

\* lines 177-178: the call on a child, one level down
ColorDescend ==
    /\ cpc = "recurse" /\ clvl < MaxLvl
    /\ clvl' = clvl + 1
    /\ cpc' = "call"
    /\ UNCHANGED <<chue, crgb>>
    /\ UNCHANGED <<mainVars, arcVars>>

NextColor == ColorNode \/ ColorDescend

SpecColor == InitColor /\ [][NextColor]_vars

\* ============================================================ properties
Depth(p)     == Len(p)
IsLeaf(p)    == Children(nodes, p) = {}
AfterValues  == pc \in {"geo", "color", "arcs", "save", "done", "error"}
AfterGeo     == pc \in {"color", "arcs", "save", "done"}
Ts(p)        == span[p][1]
Te(p)        == span[p][2]

\* C1: after propogate_values and propogate_geo on a tree whose leaf values
\* are non-negative and whose nodes with children all have a value > 0, the
\* children of every node, in ascending name order, tile the node's span:
\* the first starts at the node's ts, the last ends at the node's te, and
\* each one ends where the next one starts.
C1_Precondition ==
    \A p \in nodes :
        /\ p \in DOMAIN value
        /\ IF IsLeaf(p) THEN value[p] >= 0 ELSE value[p] > 0
C1_Tiling ==
    (AfterGeo /\ C1_Precondition) =>
        \A p \in Interior(nodes) :
            LET kids == Sorted(nodes, p) IN
            /\ Ts(kids[1]) = Ts(p)
            /\ Te(kids[Len(kids)]) = Te(p)
            /\ \A i \in 1..(Len(kids) - 1) : Te(kids[i]) = Ts(kids[i + 1])
C1_Witness ==
    /\ AfterGeo /\ C1_Precondition
    /\ \E p \in Interior(nodes) :
        /\ p # <<>>
        /\ Cardinality(Children(nodes, p)) >= 2
        /\ \A c \in Children(nodes, p) : Ts(c) # Te(c)
        /\ Ts(p) # RZero

\* C2: after propogate_values every node with children, at every depth, has
\* value equal to the sum of its children's values, whatever value a row
\* assigned to it directly, and a node without children keeps the value its
\* row supplied.
C2_Aggregation ==
    AfterValues =>
        \A p \in nodes :
            IF IsLeaf(p)
            THEN p \in DOMAIN supplied =>
                    (p \in DOMAIN value /\ value[p] = supplied[p])
            ELSE /\ p \in DOMAIN value
                 /\ value[p] = SumValues(Children(nodes, p), value)
C2_Witness ==
    /\ AfterValues
    /\ \E p \in Interior(nodes) :
        /\ p # <<>>
        /\ p \in DOMAIN supplied
        /\ supplied[p] # value[p]
    /\ \E q \in nodes : IsLeaf(q) /\ Depth(q) = 1 /\ value[q] # 0

\* C4: after a row is processed, every non-empty cell idx of the row is the
\* path's segment at position idx and every deeper segment of the path comes
\* from this row; an empty cell leaves the segment at its position (if any)
\* as the previous rows left it; and the row's value is assigned to the node
\* at the end of the path.
C4_CarryForward ==
    (pc = "read" /\ nrows > 0) =>
        /\ \A idx \in 1..Len(row.cells) :
            IF row.cells[idx] # Empty
            THEN /\ Len(path) >= idx
                 /\ path[idx] = row.cells[idx]
                 /\ \A j \in (idx + 1)..Len(path) : row.cells[j] # Empty
            ELSE idx <= Len(path) =>
                    (idx <= Len(prevpath) /\ path[idx] = prevpath[idx])
        /\ path \in DOMAIN value /\ value[path] = row.value

\* C5: when propogate_geo visits a node with children whose value is 0 it
\* does not raise: every child gets a zero-width span and the layout pass
\* completes.
GeoVisited(p) == p = <<>> \/ p \in DOMAIN radii
C5_ZeroValueNoRaise ==
    \A p \in Interior(nodes) :
        (pc \notin {"read", "values", "geo"} /\ GeoVisited(p) /\ value[p] = 0)
            => /\ pc # "error"
               /\ \A c \in Children(nodes, p) :
                    c \in DOMAIN span /\ Ts(c) = Te(c)

\* C6: when a node is given a value by a row and is also an interior node of
\* another row's path, get_data fails with MalformedRowError and returns no
\* tree.
LeafInteriorConflict ==
    \E p \in DOMAIN supplied : p # <<>> /\ Children(nodes, p) # {}
C6_ConflictRejected ==
    LeafInteriorConflict =>
        /\ pc \in {"read", "error"}
        /\ pc = "error" => err = "MalformedRowError"

\* C7: if a leaf of the built tree has a negative value, the run aborts
\* with MissingValueError during value aggregation: no span is assigned, no
\* wedge or label is emitted and no document is saved.
HasNegativeLeaf ==
    \E p \in nodes : IsLeaf(p) /\ p \in DOMAIN value /\ value[p] < 0
C7_NegativeAborts ==
    (HasNegativeLeaf /\ pc # "read" /\ pc # "values") =>
        /\ pc = "error" /\ err = "MissingValueError"
        /\ radii = <<>> /\ draws = <<>> /\ ~saved

\* C8: after propogate_geo(data, RING_START) every non-root node at depth d
\* has r0 = RING_START + (d - 1) * RING_WIDTH and r1 = r0 + RING_WIDTH, and
\* every child's r0 is its parent's r1 and greater than its parent's r0.
R0(p) == radii[p][1]
R1(p) == radii[p][2]
C8_Radii ==
    AfterGeo =>
        \A p \in nodes \ {<<>>} :
            /\ p \in DOMAIN radii
            /\ R0(p) = RING_START + (Depth(p) - 1) * RING_WIDTH
            /\ R1(p) = R0(p) + RING_WIDTH
            /\ Depth(p) > 1 =>
                (R0(p) = R1(Parent(p)) /\ R0(p) > R0(Parent(p)))
C8_Witness ==
    /\ AfterGeo
    /\ \E p \in nodes, q \in nodes :
        Depth(p) = 2 /\ Depth(q) = 2 /\ Parent(p) # Parent(q)

\* C10: add_arcs emits one wedge and one label for every non-root node and
\* none for the root, siblings in ascending name order and every node before
\* its descendants.
RECURSIVE DrawsOf(_)
DrawsOf(ps) ==
    IF ps = <<>> THEN <<>>
    ELSE << [kind |-> "wedge", node |-> ps[1]],
            [kind |-> "label", node |-> ps[1]] >> \o DrawsOf(Tail(ps))
C10_DrawOrder ==
    pc \in {"save", "done"} => draws = DrawsOf(Tail(Preorder(nodes, <<>>)))

\* C3: for every addArc call whose normalized span is > 0, every arc command
\* of the path spans more than 0 and at most pi between the point it starts
\* from and the point it ends at, so that its two ends are at different
\* angles; a span of exactly 2*pi gives two inner and two outer arc commands
\* of pi each.
ArcCmds == {i \in 1..Len(apath) : apath[i].op = "A"}
ArcSpan(i) == Abs(apath[i].t - apath[i - 1].t)
NormSpan == (IF t2 # <<>> THEN t2[1] ELSE t1) - t0
C9_ChannelsInRange ==
    cpc = "recurse" => \A i \in 1..3 : crgb[i] \in 0..255
====
